---- MODULE Spec2Model ----
(***************************************************************************)
(* Payout approval / rejection workflow of AdminService                    *)
(* (src/unnamed/part_000, approvePayout and rejectPayout).                 *)
(*                                                                         *)
(* The store (supabase) holds the payouts and partners tables.  Every      *)
(* `await supabase...` of a handler is one atomic store operation and one  *)
(* action of the model; between two awaits of one invocation the store     *)
(* operations of other invocations may run.  A store operation either      *)
(* succeeds or returns an error object ({ error }), chosen                 *)
(* nondeterministically.  Money is counted in whole cents.                 *)
(*                                                                         *)
(* Further workflows of the same service, each with a specification of    *)
(* its own: managePartners (SpecPartners), processRefundRequest           *)
(* (SpecRefunds), the page arithmetic of getAllPayouts (SpecPayoutsPage)   *)
(* and the admin router of src/unnamed/part_001 (SpecRouter).              *)
(***************************************************************************)
EXTENDS Integers, Sequences, FiniteSets, TLC

\* ---- bounds of the model ------------------------------------------------
MaxReqs == 2
MaxAmount == 2
MaxBalance == 3
MaxCalls == 3
MaxLen == 3
MaxCount == 3

\* ---- value sets -----------------------------------------------------------
NULL == "null"
NOW == "now"
PayoutIds == {"P1", "P2"}
MissingPayoutId == "P0"
OrphanPayoutId == "P3"
PartnerIds == {"N1", "N2"}
AdminIds == {"admin1"}
Reasons == {"", "duplicate request"}
Reqs == 1..MaxReqs

VARIABLES payouts, partners, initial_balance, emails, req, http,
          mcall, history, outbox, refunds, wallets, rcall, rcalls, pipeline, pq

manageVars == <<mcall, history>>
refundVars == <<refunds, wallets, rcall, rcalls>>

\* the variables of the workflows other than payout approval and rejection
otherVars == <<manageVars, outbox, refundVars, pipeline, pq>>

vars == <<payouts, partners, initial_balance, emails, req, http, otherVars>>

\* ---- helpers ----------------------------------------------------------------
\* a || b of JavaScript on strings: the empty string is falsy
OrDefault(s, d) == IF s = "" THEN d ELSE s

\* the module-level identifier `emailService` is never declared: only
\* `sendEmail` is imported, so `!emailService` throws a ReferenceError
emailServiceDefined == FALSE

\* a payout row that was not read, and the result of a call that has not returned
NoPayout ==
  [partner_id |-> NULL, amount |-> 0, status |-> NULL,
   approved_at |-> NULL, approved_by |-> NULL, processed_at |-> NULL,
   rejected_at |-> NULL, rejected_by |-> NULL, rejection_reason |-> NULL]

NoResult == [ok |-> FALSE, error |-> "none", detail |-> <<>>]

\* an invocation that has not started: its arguments, its local variables
\* (named as in the source), the store calls it has issued and its result
IdleReq ==
  [op |-> "none", pc |-> "idle", payoutId |-> NULL, adminId |-> NULL,
   rejectionReason |-> "", payout |-> NoPayout,
   payoutAmount |-> 0, currentAvailableBalance |-> 0, newAvailableBalance |-> 0,
   log |-> <<>>, notified |-> "not called", result |-> NoResult]

\* a payout row whose partner_id names no row of the partners table; no write
\* ever reaches it, so it is not part of the payouts variable
OrphanPayout ==
  [NoPayout EXCEPT !.partner_id = "N0", !.amount = 1, !.status = "pending"]

\* the rows of the payouts table with the given id
PayoutRows(payoutId) ==
  IF payoutId \in PayoutIds THEN {payouts[payoutId]}
  ELSE IF payoutId = OrphanPayoutId THEN {OrphanPayout}
  ELSE {}

\* the rows that survive the `partners!inner(...)` join
JoinedRows(payoutId) ==
  {row \in PayoutRows(payoutId) : row.partner_id \in PartnerIds}

\* outcome of `.from('payouts').select(...).eq('id', payoutId).single()`:
\* `.single()` reports an error unless exactly one row is returned
FetchPayout(payoutId, storeOk) ==
  IF storeOk /\ JoinedRows(payoutId) # {}
  THEN [data |-> CHOOSE row \in JoinedRows(payoutId) : TRUE, error |-> FALSE]
  ELSE [data |-> NoPayout, error |-> TRUE]

Failure(msg, detail) == [ok |-> FALSE, error |-> msg, detail |-> detail]

\* a guard that lets an approved payout through
StatusIsPending_NotRejected(status) == status # "rejected"

\* a guard that lets a rejected payout through
StatusIsPending_NotApproved(status) == status # "approved"

\* the check of line 646 / 751
StatusIsPending(status) == status = "pending"

\* the balance check left out
InsufficientBalance_NoCheck(balance, amount) == FALSE

\* an off-by-one comparison
InsufficientBalance_OffByOne(balance, amount) == balance + 1 < amount

\* the check of line 655
InsufficientBalance(balance, amount) == balance < amount

\* an HTTP request that has not been answered
NoResponse ==
  [state |-> "none", payoutId |-> NULL, status |-> 0, success |-> FALSE,
   error |-> "none"]

\* ---- managePartners: values ------------------------------------------------------
PartnerStatuses == {"pending", "approved", "rejected", "suspended"}

\* line 166
validActions ==
  {"approve", "reject", "suspend", "activate", "update_commission", "update"}

\* the request body: the keys the handler reads ("" stands for an absent key)
NoData == [reason |-> "", commissionRate |-> "", business_name |-> ""]

\* a row of the partners table that was not read
NoPartner ==
  [available_balance |-> 0, business_name |-> NULL, status |-> NULL,
   approved_at |-> NULL, rejected_at |-> NULL, rejection_reason |-> NULL,
   suspended_at |-> NULL, commission_rate |-> 0, updated_at |-> NULL]

\* an update object: the columns it names and their new values
NoUpdate == [fields |-> {}, row |-> NoPartner]

NoManageResult == [ok |-> FALSE, message |-> "none", newStatus |-> NULL]

\* no managePartners invocation has been made
IdleManage ==
  [pc |-> "idle", action |-> NULL, partnerId |-> NULL, data |-> NoData,
   partner |-> NoPartner, updateData |-> NoUpdate, emailData |-> NULL,
   log |-> <<>>, result |-> NoManageResult]

\* the number of managePartners invocations made so far, and the store writes
\* and sendEmail calls of the latest run of invocations that repeat one action
\* on one partner
NoHistory ==
  [calls |-> 0, action |-> NULL, partnerId |-> NULL, writes |-> 0, mails |-> 0]

\* ---- processRefundRequest: values -----------------------------------------------
RefundIds == {"F1"}
UserIds == {"U1"}

\* a row of the refunds table that was not read; `users` tells whether the
\* join returned the user's row
NoRefund ==
  [status |-> NULL, amount |-> 0, user_id |-> NULL, users |-> FALSE,
   processed_by |-> NULL, processed_at |-> NULL]

NoRefundResult == [ok |-> FALSE, message |-> "none"]

\* no processRefundRequest invocation has been made
IdleRefund ==
  [pc |-> "idle", refundId |-> NULL, action |-> NULL, adminId |-> NULL,
   refund |-> NoRefund, log |-> <<>>, result |-> NoRefundResult]

\* ---- the admin router: values ------------------------------------------------------
\* a request that has not arrived: the route it asks for, the middleware that
\* passed it on, and how far it got
NoRequest == [stage |-> "none", route |-> NULL, passed |-> <<>>]

\* ---- getAllPayouts: values ---------------------------------------------------------
NoPagination ==
  [total |-> 0, page |-> 0, limit |-> 0, totalPages |-> 0,
   hasNextPage |-> FALSE, hasPreviousPage |-> FALSE]

\* no getAllPayouts invocation has been made: its arguments (as the text the
\* caller passed), the rows the query counts, the range it asked for and its
\* result
NoQuery ==
  [pc |-> "idle", page |-> <<>>, limit |-> <<>>, count |-> 0,
   range |-> <<0, 0>>, pagination |-> NoPagination]

\* the other workflows before any of their operations is invoked
OthersAtRest ==
  /\ mcall = IdleManage
  /\ history = NoHistory
  /\ outbox = <<>>
  /\ refunds = [f \in RefundIds |->
        [NoRefund EXCEPT !.status = "pending", !.amount = 1, !.user_id = "U1",
                         !.users = TRUE]]
  /\ wallets = [u \in UserIds |-> 0]
  /\ rcall = IdleRefund
  /\ rcalls = 0
  /\ pipeline = [h \in Reqs |-> NoRequest]
  /\ pq = NoQuery

\* the partner all payouts of the model belong to; the other partner is a
\* bystander row of the partners table
PayoutPartner == "N1"

\* ---- Init ---------------------------------------------------------------------
Init ==
  /\ payouts \in [PayoutIds ->
        [partner_id : {PayoutPartner}, amount : 1..MaxAmount, status : {"pending"},
         approved_at : {NULL}, approved_by : {NULL}, processed_at : {NULL},
         rejected_at : {NULL}, rejected_by : {NULL}, rejection_reason : {NULL}]]
  /\ payouts["P1"].amount <= payouts["P2"].amount
  /\ partners \in [PartnerIds ->
        [available_balance : 0..MaxBalance, business_name : {"biz"},
         status : {"approved"}, approved_at : {NOW}, rejected_at : {NULL},
         rejection_reason : {NULL}, suspended_at : {NULL},
         commission_rate : {10}, updated_at : {NOW}]]
  /\ \A n \in PartnerIds \ {PayoutPartner} :
        partners[n].available_balance = MaxBalance
  /\ initial_balance = [n \in PartnerIds |-> partners[n].available_balance]
  /\ emails = <<>>
  /\ req = [r \in Reqs |-> IdleReq]
  /\ http = [h \in Reqs |-> NoResponse]
  /\ OthersAtRest

\* invocations are numbered in the order in which they issue their fetch
IsNextToStart(r) ==
  /\ req[r].pc = "idle"
  /\ \A o \in 1..(r - 1) : req[o].pc # "idle"

\* ---- approvePayout ------------------------------------------------------------
\* lines 627-657: fetch the payout with its partner, then the guards
ApproveFetch(r, payoutId, adminId, storeOk) ==
  /\ IsNextToStart(r)
  /\ LET f == FetchPayout(payoutId, storeOk)
         base == [req[r] EXCEPT !.op = "approve", !.payoutId = payoutId,
                                !.adminId = adminId,
                                !.log = Append(@, <<"fetch", storeOk>>)]
     IN IF f.error
        THEN req' = [req EXCEPT ![r] = [base EXCEPT !.pc = "done",
                       !.result = Failure("Payout not found", <<>>)]]
        ELSE LET payout == f.data
                 payoutAmount == payout.amount
                 currentAvailableBalance ==
                     partners[payout.partner_id].available_balance
                 got == [base EXCEPT !.payout = payout,
                           !.payoutAmount = payoutAmount,
                           !.currentAvailableBalance = currentAvailableBalance]
             IN IF ~StatusIsPending(payout.status)
                THEN req' = [req EXCEPT ![r] = [got EXCEPT !.pc = "done",
                       !.result = Failure("Cannot approve payout with status",
                                          <<payout.status>>)]]
                ELSE IF InsufficientBalance(currentAvailableBalance, payoutAmount)
                THEN req' = [req EXCEPT ![r] = [got EXCEPT !.pc = "done",
                       !.result = Failure("Insufficient partner balance",
                                    <<currentAvailableBalance, payoutAmount>>)]]
                ELSE req' = [req EXCEPT ![r] = [got EXCEPT !.pc = "a_updPayout"]]
  /\ UNCHANGED <<payouts, partners, initial_balance, emails, http, otherVars>>

\* the row written by lines 664-669
ApprovedRow(row, adminId) ==
  [row EXCEPT !.status = "approved", !.approved_at = NOW,
              !.approved_by = adminId, !.processed_at = NOW]

\* a status write whose error is not tested
ApproveUpdatePayout_ContinuesOnError(r, storeOk) ==
  /\ req[r].pc = "a_updPayout"
  /\ payouts' = IF storeOk
                THEN [payouts EXCEPT ![req[r].payoutId] =
                         ApprovedRow(@, req[r].adminId)]
                ELSE payouts
  /\ req' = [req EXCEPT ![r].pc = "a_updPartner",
               ![r].log = Append(@, <<"payouts", storeOk>>)]
  /\ UNCHANGED <<partners, initial_balance, emails, http, otherVars>>

\* a status write that is issued a second time after a store error
ApproveUpdatePayout_RetriesOnce(r, storeOk) ==
  /\ req[r].pc = "a_updPayout"
  /\ IF storeOk
     THEN /\ payouts' = [payouts EXCEPT ![req[r].payoutId] =
                            ApprovedRow(@, req[r].adminId)]
          /\ req' = [req EXCEPT ![r].pc = "a_updPartner",
                       ![r].log = Append(@, <<"payouts", TRUE>>)]
     ELSE /\ UNCHANGED payouts
          /\ req' = [req EXCEPT
                       ![r].pc = IF Len(req[r].log) < 2 THEN "a_updPayout" ELSE "done",
                       ![r].log = Append(@, <<"payouts", FALSE>>),
                       ![r].result = IF Len(req[r].log) < 2 THEN @
                                     ELSE Failure("Failed to approve payout", <<>>)]
  /\ UNCHANGED <<partners, initial_balance, emails, http, otherVars>>

\* lines 662-674: phase 1, `.update({status:'approved',...}).eq('id', payoutId)`
ApproveUpdatePayout(r, storeOk) ==
  /\ req[r].pc = "a_updPayout"
  /\ IF storeOk
     THEN /\ payouts' = [payouts EXCEPT ![req[r].payoutId] =
                            ApprovedRow(@, req[r].adminId)]
          /\ req' = [req EXCEPT ![r].pc = "a_updPartner",
                       ![r].log = Append(@, <<"payouts", TRUE>>)]
     ELSE /\ UNCHANGED payouts
          /\ req' = [req EXCEPT ![r].pc = "done",
                       ![r].log = Append(@, <<"payouts", FALSE>>),
                       ![r].result = Failure("Failed to approve payout", <<>>)]
  /\ UNCHANGED <<partners, initial_balance, emails, http, otherVars>>

\* a deduction that is computed but not applied
NewAvailableBalance_NoDeduction(currentAvailableBalance, payoutAmount) ==
  currentAvailableBalance

\* line 677
NewAvailableBalance(currentAvailableBalance, payoutAmount) ==
  currentAvailableBalance - payoutAmount

\* a balance write without its `.eq('id', payout.partner_id)` filter
ApproveUpdatePartner_NoFilter(r, storeOk) ==
  /\ req[r].pc = "a_updPartner"
  /\ LET newAvailableBalance ==
           NewAvailableBalance(req[r].currentAvailableBalance, req[r].payoutAmount)
     IN IF storeOk
        THEN /\ partners' = [n \in PartnerIds |->
                   [partners[n] EXCEPT !.available_balance = newAvailableBalance]]
             /\ req' = [req EXCEPT ![r].pc = "a_notify",
                          ![r].newAvailableBalance = newAvailableBalance,
                          ![r].log = Append(@, <<"partners", TRUE>>)]
        ELSE /\ UNCHANGED partners
             /\ req' = [req EXCEPT ![r].pc = "a_rollback",
                          ![r].newAvailableBalance = newAvailableBalance,
                          ![r].log = Append(@, <<"partners", FALSE>>)]
  /\ UNCHANGED <<payouts, initial_balance, emails, http, otherVars>>

\* lines 676-688: phase 2, the partner balance write
ApproveUpdatePartner(r, storeOk) ==
  /\ req[r].pc = "a_updPartner"
  /\ LET newAvailableBalance ==
           NewAvailableBalance(req[r].currentAvailableBalance, req[r].payoutAmount)
     IN IF storeOk
        THEN /\ partners' = [partners EXCEPT
                   ![req[r].payout.partner_id].available_balance = newAvailableBalance]
             /\ req' = [req EXCEPT ![r].pc = "a_notify",
                          ![r].newAvailableBalance = newAvailableBalance,
                          ![r].log = Append(@, <<"partners", TRUE>>)]
        ELSE /\ UNCHANGED partners
             /\ req' = [req EXCEPT ![r].pc = "a_rollback",
                          ![r].newAvailableBalance = newAvailableBalance,
                          ![r].log = Append(@, <<"partners", FALSE>>)]
  /\ UNCHANGED <<payouts, initial_balance, emails, http, otherVars>>

\* a rollback that forgets to clear approved_by
RolledBackRow_KeepsApprover(row) ==
  [row EXCEPT !.status = "pending", !.approved_at = NULL, !.processed_at = NULL]

\* the row written by lines 693-698
RolledBackRow(row) ==
  [row EXCEPT !.status = "pending", !.approved_at = NULL,
              !.approved_by = NULL, !.processed_at = NULL]

\* a failure path whose compensating write has no effect on the payout
ApproveRollback_NoCompensation(r, storeOk) ==
  /\ req[r].pc = "a_rollback"
  /\ payouts' = payouts
  /\ req' = [req EXCEPT ![r].pc = "done",
               ![r].log = Append(@, <<"rollback", storeOk>>),
               ![r].result = Failure("Failed to update partner balance", <<>>)]
  /\ UNCHANGED <<partners, initial_balance, emails, http, otherVars>>

\* a rollback after which the failure is not thrown
ApproveRollback_Swallows(r, storeOk) ==
  /\ req[r].pc = "a_rollback"
  /\ payouts' = IF storeOk
                THEN [payouts EXCEPT ![req[r].payoutId] = RolledBackRow(@)]
                ELSE payouts
  /\ req' = [req EXCEPT ![r].pc = "a_notify",
               ![r].log = Append(@, <<"rollback", storeOk>>)]
  /\ UNCHANGED <<partners, initial_balance, emails, http, otherVars>>

\* lines 690-702: the compensating write (its outcome is not inspected),
\* then the balance-update failure is thrown
ApproveRollback(r, storeOk) ==
  /\ req[r].pc = "a_rollback"
  /\ payouts' = IF storeOk
                THEN [payouts EXCEPT ![req[r].payoutId] = RolledBackRow(@)]
                ELSE payouts
  /\ req' = [req EXCEPT ![r].pc = "done",
               ![r].log = Append(@, <<"rollback", storeOk>>),
               ![r].result = Failure("Failed to update partner balance", <<>>)]
  /\ UNCHANGED <<partners, initial_balance, emails, http, otherVars>>

\* lines 714-721
ApproveResult(q) ==
  [ok |-> TRUE, message |-> "Payout approved successfully",
   payout_id |-> q.payoutId, amount |-> q.payoutAmount,
   partner_name |-> partners[q.payout.partner_id].business_name,
   previous_balance |-> q.currentAvailableBalance,
   new_balance |-> q.newAvailableBalance]

\* lines 791-817 / 820-844: the notification helpers.  `emails` lists the calls
\* of emailService.sendEmail; evaluating `!emailService` throws before any call
\* is made, and the helper's own catch swallows that error
SendPayoutEmail(template, q, sendOk) ==
  IF emailServiceDefined
  THEN Append(emails, [template |-> template, payout_id |-> q.payoutId,
                       new_balance |-> q.newAvailableBalance,
                       delivered |-> sendOk])
  ELSE emails

\* how the helper ended: it never throws to its caller
NotifyOutcome(sendOk) ==
  IF emailServiceDefined /\ sendOk THEN "sent" ELSE "error caught"

\* a notification failure that undoes the approval and is thrown to the caller
ApproveNotify_Propagates(r, sendOk) ==
  /\ req[r].pc = "a_notify"
  /\ emails' = SendPayoutEmail("payout-approval", req[r], sendOk)
  /\ IF NotifyOutcome(sendOk) = "sent"
     THEN /\ req' = [req EXCEPT ![r].pc = "done", ![r].notified = "sent",
                       ![r].result = ApproveResult(req[r])]
          /\ UNCHANGED payouts
     ELSE /\ req' = [req EXCEPT ![r].pc = "done", ![r].notified = "error caught",
                       ![r].result = Failure("Failed to send payout approval email", <<>>)]
          /\ payouts' = [payouts EXCEPT ![req[r].payoutId] = RolledBackRow(@)]
  /\ UNCHANGED <<partners, initial_balance, http, otherVars>>

\* lines 704-721: notification, then the success result
ApproveNotify(r, sendOk) ==
  /\ req[r].pc = "a_notify"
  /\ emails' = SendPayoutEmail("payout-approval", req[r], sendOk)
  /\ req' = [req EXCEPT ![r].pc = "done",
               ![r].notified = NotifyOutcome(sendOk),
               ![r].result = ApproveResult(req[r])]
  /\ UNCHANGED <<payouts, partners, initial_balance, http, otherVars>>

\* ---- rejectPayout -------------------------------------------------------------
\* a fetch whose failure is not looked at
RejectFetch_NoNotFoundCheck(r, payoutId, adminId, rejectionReason, storeOk) ==
  /\ IsNextToStart(r)
  /\ LET f == FetchPayout(payoutId, storeOk)
         base == [req[r] EXCEPT !.op = "reject", !.payoutId = payoutId,
                                !.adminId = adminId,
                                !.rejectionReason = rejectionReason,
                                !.log = Append(@, <<"fetch", storeOk>>)]
     IN IF ~StatusIsPending(f.data.status)
        THEN req' = [req EXCEPT ![r] = [base EXCEPT !.pc = "done",
                       !.payout = f.data,
                       !.result = Failure("Cannot reject payout with status",
                                          <<f.data.status>>)]]
        ELSE req' = [req EXCEPT ![r] = [base EXCEPT !.pc = "r_update",
                       !.payout = f.data]]
  /\ UNCHANGED <<payouts, partners, initial_balance, emails, http, otherVars>>

\* lines 734-753
RejectFetch(r, payoutId, adminId, rejectionReason, storeOk) ==
  /\ IsNextToStart(r)
  /\ LET f == FetchPayout(payoutId, storeOk)
         base == [req[r] EXCEPT !.op = "reject", !.payoutId = payoutId,
                                !.adminId = adminId,
                                !.rejectionReason = rejectionReason,
                                !.log = Append(@, <<"fetch", storeOk>>)]
     IN IF f.error
        THEN req' = [req EXCEPT ![r] = [base EXCEPT !.pc = "done",
                       !.result = Failure("Payout not found", <<>>)]]
        ELSE IF ~StatusIsPending(f.data.status)
        THEN req' = [req EXCEPT ![r] = [base EXCEPT !.pc = "done",
                       !.payout = f.data,
                       !.result = Failure("Cannot reject payout with status",
                                          <<f.data.status>>)]]
        ELSE req' = [req EXCEPT ![r] = [base EXCEPT !.pc = "r_update",
                       !.payout = f.data]]
  /\ UNCHANGED <<payouts, partners, initial_balance, emails, http, otherVars>>

\* a rejection that stores the reason as given, without the default
RejectedRow_NoDefault(row, adminId, rejectionReason) ==
  [row EXCEPT !.status = "rejected", !.rejected_at = NOW,
              !.rejected_by = adminId, !.rejection_reason = rejectionReason]

\* the row written by lines 758-763
RejectedRow(row, adminId, rejectionReason) ==
  [row EXCEPT !.status = "rejected", !.rejected_at = NOW,
              !.rejected_by = adminId,
              !.rejection_reason = OrDefault(rejectionReason, "Rejected by admin")]

\* lines 755-768
RejectUpdate(r, storeOk) ==
  /\ req[r].pc = "r_update"
  /\ IF storeOk
     THEN /\ payouts' = [payouts EXCEPT ![req[r].payoutId] =
                           RejectedRow(@, req[r].adminId, req[r].rejectionReason)]
          /\ req' = [req EXCEPT ![r].pc = "r_notify",
                       ![r].log = Append(@, <<"payouts", TRUE>>)]
     ELSE /\ UNCHANGED payouts
          /\ req' = [req EXCEPT ![r].pc = "done",
                       ![r].log = Append(@, <<"payouts", FALSE>>),
                       ![r].result = Failure("Failed to reject payout", <<>>)]
  /\ UNCHANGED <<partners, initial_balance, emails, http, otherVars>>

\* lines 779-783
RejectResult(q) ==
  [ok |-> TRUE, message |-> "Payout rejected successfully",
   payout_id |-> q.payoutId, rejection_reason |-> q.rejectionReason]

\* a notification failure that is thrown to the caller
RejectNotify_Propagates(r, sendOk) ==
  /\ req[r].pc = "r_notify"
  /\ emails' = SendPayoutEmail("payout-rejection", req[r], sendOk)
  /\ req' = [req EXCEPT ![r].pc = "done",
               ![r].notified = NotifyOutcome(sendOk),
               ![r].result = IF NotifyOutcome(sendOk) = "sent"
                             THEN RejectResult(req[r])
                             ELSE Failure("Failed to send payout rejection email", <<>>)]
  /\ UNCHANGED <<payouts, partners, initial_balance, http, otherVars>>

\* lines 772-783
RejectNotify(r, sendOk) ==
  /\ req[r].pc = "r_notify"
  /\ emails' = SendPayoutEmail("payout-rejection", req[r], sendOk)
  /\ req' = [req EXCEPT ![r].pc = "done",
               ![r].notified = NotifyOutcome(sendOk),
               ![r].result = RejectResult(req[r])]
  /\ UNCHANGED <<payouts, partners, initial_balance, http, otherVars>>

\* ---- specifications -------------------------------------------------------------
\* the ids a caller may pass
GivenIds == PayoutIds \cup {MissingPayoutId, OrphanPayoutId}

\* the outcomes of the store's part of a fetch: a store error is told apart
\* only where a row would have been returned
FetchOutcomes(payoutId) ==
  IF payoutId \in PayoutIds THEN BOOLEAN ELSE {TRUE}

Step(r) ==
  \/ \E p \in GivenIds, a \in AdminIds : \E ok \in FetchOutcomes(p) :
        ApproveFetch(r, p, a, ok)
  \/ \E ok \in BOOLEAN : ApproveUpdatePayout(r, ok)
  \/ \E ok \in BOOLEAN : ApproveUpdatePartner(r, ok)
  \/ \E ok \in BOOLEAN : ApproveRollback(r, ok)
  \/ \E ok \in BOOLEAN : ApproveNotify(r, ok)
  \/ \E p \in GivenIds, a \in AdminIds, reason \in Reasons :
        \E ok \in FetchOutcomes(p) : RejectFetch(r, p, a, reason, ok)
  \/ \E ok \in BOOLEAN : RejectUpdate(r, ok)
  \/ \E ok \in BOOLEAN : RejectNotify(r, ok)

\* any interleaving of the store operations of concurrent invocations
Next == \E r \in Reqs : Step(r)

Spec == Init /\ [][Next]_vars

\* invocations served one after the other: an invocation takes a step only
\* while no other invocation is between its fetch and its return
NoOtherInProgress(r) ==
  \A o \in Reqs \ {r} : req[o].pc \in {"idle", "done", "crashed"}

NextSeq == \E r \in Reqs : NoOtherInProgress(r) /\ Step(r)

SpecSeq == Init /\ [][NextSeq]_vars

\* every store or notifier call a started invocation is waiting for returns
Fairness ==
  \A r \in Reqs : WF_vars(NoOtherInProgress(r) /\ req[r].pc # "idle" /\ Step(r))

\* invocations served one after the other, whose calls all return
SpecSeqFair == SpecSeq /\ Fairness

\* the process stops while invocation r waits for a store call: r takes no
\* further step and returns nothing
Crash(r) ==
  /\ req[r].pc \notin {"idle", "done", "crashed"}
  /\ req' = [req EXCEPT ![r].pc = "crashed"]
  /\ UNCHANGED <<payouts, partners, initial_balance, emails, http, otherVars>>

NextCrash ==
  \/ NextSeq
  \/ \E r \in Reqs : NoOtherInProgress(r) /\ Crash(r)

\* invocations served one after the other, any of which may be cut short
SpecCrash == Init /\ [][NextCrash]_vars

\* ---- the route PUT /admin/payouts/:payoutId/approve ---------------------------
\* adminController.js line 321: the declaration of `adminId` is commented out,
\* so evaluating the argument list of line 330 throws a ReferenceError
adminIdDeclared == FALSE

\* res.status(400).json({ success: false, error })
ErrorResponse(payoutId, message) ==
  [state |-> "responded", payoutId |-> payoutId, status |-> 400,
   success |-> FALSE, error |-> message]

\* adminController.js lines 318-344.  The service is entered only if line 330
\* can be evaluated; the response then follows the service's result
ControllerApprovePayout(h, payoutId) ==
  /\ http[h].state = "none"
  /\ http' = [http EXCEPT ![h] =
        IF payoutId = ""
        THEN ErrorResponse(payoutId, "Payout ID is required")
        ELSE IF ~adminIdDeclared
        THEN ErrorResponse(payoutId, "adminId is not defined")
        ELSE [NoResponse EXCEPT !.state = "in service", !.payoutId = payoutId]]
  /\ UNCHANGED <<payouts, partners, initial_balance, emails, req, otherVars>>

NextHttp == \E h \in Reqs, p \in GivenIds \cup {""} : ControllerApprovePayout(h, p)

\* requests to the approve route
SpecHttp == Init /\ [][NextHttp]_vars

\* ---- managePartners (part_000 lines 155-357) -------------------------------------
\* the row after `.update(updateData)`: the named columns are overwritten
Patch(row, updateData) ==
  [f \in DOMAIN row |-> IF f \in updateData.fields THEN updateData.row[f] ELSE row[f]]

UpdateOf(fields, row) == [fields |-> fields, row |-> row]

\* parseFloat(data.commissionRate), in hundredths; NaN where no number is read
ParseFloat(text) ==
  CASE text = "0.5" -> [nan |-> FALSE, hundredths |-> 50]
    [] text = "1.5" -> [nan |-> FALSE, hundredths |-> 150]
    [] OTHER -> [nan |-> TRUE, hundredths |-> 0]

\* what the switch of lines 191-293 decides for the row that was read:
\* an early return, a throw, or the update (and the email template) to issue
Decision(kind, message, updateData, emailData) ==
  [kind |-> kind, message |-> message, updateData |-> updateData,
   emailData |-> emailData]

\* an approval without the check of line 193
PrepareApprove_NoEarlyReturn(partner) ==
  Decision("update", "",
    UpdateOf({"status", "approved_at", "updated_at"},
             [NoPartner EXCEPT !.status = "approved",
                !.approved_at = NOW, !.updated_at = NOW]),
    "partner-approval")

\* lines 192-213
PrepareApprove(partner) ==
  IF partner.status = "approved"
  THEN Decision("return", "Partner is already approved", NoUpdate, NULL)
  ELSE Decision("update", "",
         UpdateOf({"status", "approved_at", "updated_at"},
                  [NoPartner EXCEPT !.status = "approved",
                     !.approved_at = NOW, !.updated_at = NOW]),
         "partner-approval")

\* lines 215-238
PrepareReject(partner, data) ==
  IF partner.status = "rejected"
  THEN Decision("return", "Partner is already rejected", NoUpdate, NULL)
  ELSE Decision("update", "",
         UpdateOf({"status", "rejected_at", "rejection_reason", "updated_at"},
                  [NoPartner EXCEPT !.status = "rejected",
                     !.rejected_at = NOW,
                     !.rejection_reason =
                         OrDefault(data.reason, "Application rejected"),
                     !.updated_at = NOW]),
         "partner-rejection")

\* lines 240-251
PrepareSuspend(partner) ==
  IF partner.status = "suspended"
  THEN Decision("return", "Partner is already suspended", NoUpdate, NULL)
  ELSE Decision("update", "",
         UpdateOf({"status", "suspended_at", "updated_at"},
                  [NoPartner EXCEPT !.status = "suspended",
                     !.suspended_at = NOW, !.updated_at = NOW]),
         NULL)

\* an activation that accepts every partner that is not approved
PrepareActivate_AnyStatus(partner) ==
  IF partner.status = "approved"
  THEN Decision("return", "Partner is already active", NoUpdate, NULL)
  ELSE Decision("update", "",
         UpdateOf({"status", "suspended_at", "updated_at"},
                  [NoPartner EXCEPT !.status = "approved",
                     !.suspended_at = NULL, !.updated_at = NOW]),
         NULL)

\* lines 253-266
PrepareActivate(partner) ==
  IF partner.status = "suspended"
  THEN Decision("update", "",
         UpdateOf({"status", "suspended_at", "updated_at"},
                  [NoPartner EXCEPT !.status = "approved",
                     !.suspended_at = NULL, !.updated_at = NOW]),
         NULL)
  ELSE IF partner.status = "approved"
  THEN Decision("return", "Partner is already active", NoUpdate, NULL)
  ELSE Decision("throw",
         "Cannot activate partner that is not suspended or approved",
         NoUpdate, NULL)

\* lines 268-282
PrepareUpdateCommission(data) ==
  IF data.commissionRate = ""
  THEN Decision("throw", "Commission rate is required", NoUpdate, NULL)
  ELSE LET commissionRate == ParseFloat(data.commissionRate)
       IN IF commissionRate.nan \/ commissionRate.hundredths < 0
                                \/ commissionRate.hundredths > 100
          THEN Decision("throw",
                 "Commission rate must be a number between 0 and 1",
                 NoUpdate, NULL)
          ELSE Decision("update", "",
                 UpdateOf({"commission_rate", "updated_at"},
                          [NoPartner EXCEPT
                             !.commission_rate = commissionRate.hundredths,
                             !.updated_at = NOW]),
                 NULL)

\* lines 284-289
PrepareUpdate(data) ==
  Decision("update", "",
    UpdateOf((IF data.business_name = "" THEN {} ELSE {"business_name"})
                \cup {"updated_at"},
             [NoPartner EXCEPT !.business_name = data.business_name,
                               !.updated_at = NOW]),
    NULL)

\* lines 191-293
Prepare(action, partner, data) ==
  CASE action = "approve" -> PrepareApprove(partner)
    [] action = "reject" -> PrepareReject(partner, data)
    [] action = "suspend" -> PrepareSuspend(partner)
    [] action = "activate" -> PrepareActivate(partner)
    [] action = "update_commission" -> PrepareUpdateCommission(data)
    [] action = "update" -> PrepareUpdate(data)
    [] OTHER -> Decision("throw", "Invalid action", NoUpdate, NULL)

ManageFailure(message) == [ok |-> FALSE, message |-> message, newStatus |-> NULL]

\* lines 335-340
ManageSuccess(updatedPartner) ==
  [ok |-> TRUE, message |-> "Partner action successful",
   newStatus |-> updatedPartner.status]

\* the invocation repeats the action and the partner of the one before it
Repeats(action, partnerId) ==
  history.action = action /\ history.partnerId = partnerId

\* lines 155-293: validation, the fetch of the partner, and the switch
ManageFetch(action, partnerId, data, storeOk) ==
  /\ mcall.pc \in {"idle", "done"}
  /\ history.calls < MaxCalls
  /\ history' = [calls |-> history.calls + 1, action |-> action,
                 partnerId |-> partnerId,
                 writes |-> IF Repeats(action, partnerId) THEN history.writes ELSE 0,
                 mails |-> IF Repeats(action, partnerId) THEN history.mails ELSE 0]
  /\ LET base == [IdleManage EXCEPT !.action = action, !.partnerId = partnerId,
                                    !.data = data]
         ended(message) == [base EXCEPT !.pc = "done",
                                        !.result = ManageFailure(message)]
     IN IF partnerId = ""
        THEN mcall' = ended("Partner ID is required")
        ELSE IF action \notin validActions
        THEN mcall' = ended("Invalid action")
        ELSE IF ~storeOk \/ partnerId \notin PartnerIds
        THEN mcall' = [ended("Partner with ID not found") EXCEPT
                          !.log = <<<<"fetch", FALSE>>>>]
        ELSE LET partner == partners[partnerId]
                 d == Prepare(action, partner, data)
                 got == [base EXCEPT !.partner = partner,
                                     !.log = <<<<"fetch", TRUE>>>>]
             IN CASE d.kind = "return" ->
                       mcall' = [got EXCEPT !.pc = "done",
                                   !.result = [ok |-> TRUE, message |-> d.message,
                                               newStatus |-> partner.status]]
                  [] d.kind = "throw" ->
                       mcall' = [got EXCEPT !.pc = "done",
                                   !.result = ManageFailure(d.message)]
                  [] OTHER ->
                       mcall' = [got EXCEPT !.pc = "m_update",
                                   !.updateData = d.updateData,
                                   !.emailData = d.emailData]
  /\ UNCHANGED <<payouts, partners, initial_balance, emails, req, http, outbox,
               refundVars, pq>>

\* lines 297-313: `.update(updateData).eq('id', partnerId).select('*').single()`
ManageUpdate(storeOk) ==
  /\ mcall.pc = "m_update"
  /\ IF storeOk
     THEN LET updatedPartner == Patch(partners[mcall.partnerId], mcall.updateData)
          IN /\ partners' = [partners EXCEPT ![mcall.partnerId] = updatedPartner]
             /\ history' = [history EXCEPT !.writes = @ + 1]
             /\ mcall' = [mcall EXCEPT
                   !.pc = IF mcall.emailData # NULL THEN "m_email" ELSE "done",
                   !.log = Append(@, <<"update", TRUE>>),
                   !.result = ManageSuccess(updatedPartner)]
     ELSE /\ UNCHANGED <<partners, history>>
          /\ mcall' = [mcall EXCEPT !.pc = "done",
                         !.log = Append(@, <<"update", FALSE>>),
                         !.result = ManageFailure("Failed to update partner")]
  /\ UNCHANGED <<payouts, initial_balance, emails, req, http, outbox, refundVars, pq>>

\* lines 322-341: the email, whose failure is only logged, then the return
ManageEmail(sendOk) ==
  /\ mcall.pc = "m_email"
  /\ outbox' = Append(outbox, [template |-> mcall.emailData,
                               to |-> mcall.partnerId, delivered |-> sendOk])
  /\ history' = [history EXCEPT !.mails = @ + 1]
  /\ mcall' = [mcall EXCEPT !.pc = "done",
                 !.log = Append(@, <<"sendEmail", sendOk>>)]
  /\ UNCHANGED <<payouts, partners, initial_balance, emails, req, http,
               refundVars, pq>>

\* the arguments a caller may pass
GivenActions == validActions \cup {"delete"}
GivenPartnerIds == {PayoutPartner, "N0", ""}
DatasFor(action) ==
  CASE action = "reject" -> {[NoData EXCEPT !.reason = t] : t \in {"", "incomplete"}}
    [] action = "update_commission" ->
         {[NoData EXCEPT !.commissionRate = t] : t \in {"", "0.5", "1.5", "abc"}}
    [] action = "update" -> {[NoData EXCEPT !.business_name = t] : t \in {"", "biz2"}}
    [] OTHER -> {NoData}

\* the partners table when partner management starts: applications not yet
\* decided
InitPartners ==
  /\ payouts = [p \in PayoutIds |->
        [NoPayout EXCEPT !.partner_id = PayoutPartner, !.amount = 1,
                         !.status = "pending"]]
  /\ partners = [n \in PartnerIds |->
        [NoPartner EXCEPT !.business_name = "biz", !.status = "pending",
                          !.commission_rate = 10]]
  /\ initial_balance = [n \in PartnerIds |-> partners[n].available_balance]
  /\ emails = <<>>
  /\ req = [r \in Reqs |-> IdleReq]
  /\ http = [h \in Reqs |-> NoResponse]
  /\ OthersAtRest

\* the service called directly, not through the router
NextPartners ==
  \/ \E a \in GivenActions, n \in GivenPartnerIds, ok \in BOOLEAN :
        \E d \in DatasFor(a) : ManageFetch(a, n, d, ok) /\ UNCHANGED pipeline
  \/ \E ok \in BOOLEAN : ManageUpdate(ok) /\ UNCHANGED pipeline
  \/ \E ok \in BOOLEAN : ManageEmail(ok) /\ UNCHANGED pipeline

\* managePartners invocations, served one after the other
SpecPartners == InitPartners /\ [][NextPartners]_vars

\* ---- processRefundRequest (part_000 lines 919-993) -----------------------------
\* the payout ledger and the route responses while other workflows run
LedgerAtRest ==
  /\ payouts = [p \in PayoutIds |->
        [NoPayout EXCEPT !.partner_id = PayoutPartner, !.amount = 1,
                         !.status = "pending"]]
  /\ partners = [n \in PartnerIds |->
        [NoPartner EXCEPT !.available_balance = MaxBalance,
                          !.business_name = "biz", !.status = "approved",
                          !.approved_at = NOW, !.commission_rate = 10,
                          !.updated_at = NOW]]
  /\ initial_balance = [n \in PartnerIds |-> partners[n].available_balance]
  /\ emails = <<>>
  /\ req = [r \in Reqs |-> IdleReq]
  /\ http = [h \in Reqs |-> NoResponse]

RefundFailure(message) == [ok |-> FALSE, message |-> message]

\* line 987
RefundSuccess(action) ==
  [ok |-> TRUE, message |-> "Refund " \o action \o "d successfully"]

\* the row written by lines 943-949 (status 'approved') and 965-971 ('rejected')
ProcessedRow(row, status, adminId) ==
  [row EXCEPT !.status = status, !.processed_by = adminId, !.processed_at = NOW]

\* lines 919-935: the fetch of the refund, then the branch on the action
RefundFetch(refundId, action, adminId, storeOk) ==
  /\ rcall.pc \in {"idle", "done"}
  /\ rcalls < MaxCalls
  /\ rcalls' = rcalls + 1
  /\ LET base == [IdleRefund EXCEPT !.refundId = refundId, !.action = action,
                                    !.adminId = adminId]
     IN IF ~storeOk \/ refundId \notin RefundIds
        THEN rcall' = [base EXCEPT !.pc = "done",
                         !.log = << <<"fetch", FALSE>> >>,
                         !.result = RefundFailure("Refund request not found")]
        ELSE rcall' = [base EXCEPT
                         !.pc = IF action = "approve" THEN "f_credit" ELSE "f_reject",
                         !.refund = refunds[refundId],
                         !.log = << <<"fetch", TRUE>> >>]
  /\ UNCHANGED <<payouts, partners, initial_balance, emails, req, http,
                 manageVars, outbox, refunds, wallets, pq>>

\* lines 937-940: `await supabase.rpc('add_to_wallet', ...)`; the object the
\* call resolves to ({ error }) is not looked at
RefundCredit(storeOk) ==
  /\ rcall.pc = "f_credit"
  /\ wallets' = IF storeOk
                THEN [wallets EXCEPT ![rcall.refund.user_id] = @ + rcall.refund.amount]
                ELSE wallets
  /\ rcall' = [rcall EXCEPT !.pc = "f_approve",
                 !.log = Append(@, <<"add_to_wallet", storeOk>>)]
  /\ UNCHANGED <<payouts, partners, initial_balance, emails, req, http,
                 manageVars, outbox, refunds, rcalls, pq>>

\* the update of the refund's row, whose outcome is not looked at either, then
\* the return where there is no user to notify
RefundUpdate(status, storeOk) ==
  /\ refunds' = IF storeOk
                THEN [refunds EXCEPT ![rcall.refundId] =
                         ProcessedRow(@, status, rcall.adminId)]
                ELSE refunds
  /\ rcall' = [rcall EXCEPT
                 !.pc = IF rcall.refund.users THEN "f_email" ELSE "done",
                 !.log = Append(@, <<"update", storeOk>>),
                 !.result = IF rcall.refund.users THEN @
                            ELSE RefundSuccess(rcall.action)]
  /\ UNCHANGED <<payouts, partners, initial_balance, emails, req, http,
                 manageVars, outbox, wallets, rcalls, pq>>

\* lines 942-949
RefundApprove(storeOk) ==
  /\ rcall.pc = "f_approve"
  /\ RefundUpdate("approved", storeOk)

\* lines 964-971: the branch taken for every action other than 'approve'
RefundReject(storeOk) ==
  /\ rcall.pc = "f_reject"
  /\ RefundUpdate("rejected", storeOk)

\* lines 951-962 / 973-984, then 987: the email is awaited outside any try
\* block of its own, so a failure of sendEmail is thrown to the caller
RefundEmail(sendOk) ==
  /\ rcall.pc = "f_email"
  /\ outbox' = Append(outbox,
        [template |-> IF rcall.action = "approve" THEN "refund-approval"
                                                   ELSE "refund-rejection",
         to |-> rcall.refund.user_id, delivered |-> sendOk])
  /\ rcall' = [rcall EXCEPT !.pc = "done",
                 !.log = Append(@, <<"sendEmail", sendOk>>),
                 !.result = IF sendOk THEN RefundSuccess(rcall.action)
                            ELSE RefundFailure("Failed to send email")]
  /\ UNCHANGED <<payouts, partners, initial_balance, emails, req, http,
                 manageVars, refunds, wallets, rcalls, pq>>

\* the arguments a caller may pass
GivenRefundIds == RefundIds \cup {"F0"}
GivenRefundActions == {"approve", "reject", "cancel"}

\* a refund request a user has filed, not yet decided
InitRefunds ==
  /\ LedgerAtRest
  /\ mcall = IdleManage /\ history = NoHistory /\ outbox = <<>>
  /\ refunds \in [RefundIds ->
        [status : {"pending"}, amount : 1..MaxAmount, user_id : UserIds,
         users : BOOLEAN, processed_by : {NULL}, processed_at : {NULL}]]
  /\ wallets = [u \in UserIds |-> 0]
  /\ rcall = IdleRefund /\ rcalls = 0
  /\ pipeline = [h \in Reqs |-> NoRequest]
  /\ pq = NoQuery

\* the service called directly, not through the router
NextRefunds ==
  \/ \E f \in GivenRefundIds, a \in GivenRefundActions, adminId \in AdminIds,
        ok \in BOOLEAN : RefundFetch(f, a, adminId, ok) /\ UNCHANGED pipeline
  \/ \E ok \in BOOLEAN : RefundCredit(ok) /\ UNCHANGED pipeline
  \/ \E ok \in BOOLEAN : RefundApprove(ok) /\ UNCHANGED pipeline
  \/ \E ok \in BOOLEAN : RefundReject(ok) /\ UNCHANGED pipeline
  \/ \E ok \in BOOLEAN : RefundEmail(ok) /\ UNCHANGED pipeline

\* processRefundRequest invocations, served one after the other
SpecRefunds == InitRefunds /\ [][NextRefunds]_vars

\* ---- the admin router (part_001) ------------------------------------------------
\* lines 13, 20, 22, 30: the routes of the model and their controller methods
Routes == {"getDashboard", "managePartners", "approvePayout", "processRefund"}

\* a router on which the refund route is registered before the router.use calls
MiddlewareFor_RefundBeforeUse(route) ==
  IF route = "processRefund" THEN <<>>
  ELSE <<"authenticateToken", "authorizeRoles">>

\* lines 9-10: both router.use calls come before every route, so every route
\* is reached through both, in the order of registration
MiddlewareFor(route) == <<"authenticateToken", "authorizeRoles">>

\* what a middleware does with a request: it calls next() (TRUE) or answers
\* the request itself (FALSE); it issues no store write
MiddlewareOutcomes == BOOLEAN

\* requests are numbered in the order of their arrival
Receive(h, route) ==
  /\ pipeline[h].stage = "none"
  /\ \A o \in 1..(h - 1) : pipeline[o].stage # "none"
  /\ pipeline' = [pipeline EXCEPT ![h] =
        [stage |-> IF MiddlewareFor(route) = <<>> THEN "handler" ELSE "middleware",
         route |-> route, passed |-> <<>>]]
  /\ UNCHANGED <<payouts, partners, initial_balance, emails, req, http,
                 manageVars, outbox, refundVars, pq>>

\* the next middleware of the chain runs: the request moves on only if the
\* middleware calls next()
RunMiddleware(h, passesOn) ==
  /\ pipeline[h].stage = "middleware"
  /\ LET chain == MiddlewareFor(pipeline[h].route)
         passed == Append(pipeline[h].passed, chain[Len(pipeline[h].passed) + 1])
     IN pipeline' = [pipeline EXCEPT ![h] =
           IF passesOn
           THEN [@ EXCEPT !.passed = passed,
                          !.stage = IF Len(passed) = Len(chain) THEN "handler"
                                                               ELSE "middleware"]
           ELSE [@ EXCEPT !.stage = "stopped"]]
  /\ UNCHANGED <<payouts, partners, initial_balance, emails, req, http,
                 manageVars, outbox, refundVars, pq>>

\* the request has reached its controller method, and no other request is
\* inside a service
AtHandler(h, route) ==
  /\ pipeline[h].stage = "handler" /\ pipeline[h].route = route
  /\ \A o \in Reqs : pipeline[o].stage # "in controller"

Enter(h) == pipeline' = [pipeline EXCEPT ![h].stage = "in controller"]

\* line 13: a controller method that only reads
RouteGetDashboard(h) ==
  /\ AtHandler(h, "getDashboard")
  /\ pipeline' = [pipeline EXCEPT ![h].stage = "responded"]
  /\ UNCHANGED <<payouts, partners, initial_balance, emails, req, http,
                 manageVars, outbox, refundVars, pq>>

\* line 22 and adminController.js 318-344; the response is recorded in http
RouteApprovePayout(h, payoutId) ==
  /\ AtHandler(h, "approvePayout")
  /\ ControllerApprovePayout(h, payoutId)

\* line 30 and adminController.js 196-204: the route parameters go to the
\* service as they are
RouteProcessRefund(h, refundId, action, adminId, storeOk) ==
  /\ AtHandler(h, "processRefund")
  /\ RefundFetch(refundId, action, adminId, storeOk)
  /\ Enter(h)

\* line 20 and adminController.js 74-117: the controller answers 400 itself
\* for an action it does not know or a missing partner id
RouteManagePartners(h, action, partnerId, data, storeOk) ==
  /\ AtHandler(h, "managePartners")
  /\ IF action \notin validActions \/ partnerId = ""
     THEN /\ pipeline' = [pipeline EXCEPT ![h].stage = "responded"]
          /\ UNCHANGED <<payouts, partners, initial_balance, emails, req, http,
                         manageVars, outbox, refundVars, pq>>
     ELSE /\ ManageFetch(action, partnerId, data, storeOk)
          /\ Enter(h)

\* the call of the service made for the request has returned or thrown
ServiceReturned(h) ==
  IF pipeline[h].route = "processRefund" THEN rcall.pc = "done"
                                          ELSE mcall.pc = "done"

\* res.json(result) or res.status(400).json({ error })
Respond(h) ==
  /\ pipeline[h].stage = "in controller"
  /\ ServiceReturned(h)
  /\ pipeline' = [pipeline EXCEPT ![h].stage = "responded"]
  /\ UNCHANGED <<payouts, partners, initial_balance, emails, req, http,
                 manageVars, outbox, refundVars, pq>>

\* the controller of the request awaits the service method of its route
InService(h, route) ==
  /\ pipeline[h].stage = "in controller" /\ pipeline[h].route = route
  /\ UNCHANGED pipeline

NextRouter ==
  \/ \E h \in Reqs, route \in Routes : Receive(h, route)
  \/ \E h \in Reqs, passesOn \in MiddlewareOutcomes : RunMiddleware(h, passesOn)
  \/ \E h \in Reqs : RouteGetDashboard(h)
  \/ \E h \in Reqs, p \in GivenIds \cup {""} : RouteApprovePayout(h, p)
  \/ \E h \in Reqs, f \in GivenRefundIds, a \in GivenRefundActions,
        adminId \in AdminIds, ok \in BOOLEAN : RouteProcessRefund(h, f, a, adminId, ok)
  \/ \E h \in Reqs, a \in GivenActions, n \in GivenPartnerIds, ok \in BOOLEAN :
        RouteManagePartners(h, a, n, NoData, ok)
  \/ \E h \in Reqs, ok \in BOOLEAN : InService(h, "processRefund") /\ RefundCredit(ok)
  \/ \E h \in Reqs, ok \in BOOLEAN : InService(h, "processRefund") /\ RefundApprove(ok)
  \/ \E h \in Reqs, ok \in BOOLEAN : InService(h, "processRefund") /\ RefundReject(ok)
  \/ \E h \in Reqs, ok \in BOOLEAN : InService(h, "processRefund") /\ RefundEmail(ok)
  \/ \E h \in Reqs, ok \in BOOLEAN : InService(h, "managePartners") /\ ManageUpdate(ok)
  \/ \E h \in Reqs, ok \in BOOLEAN : InService(h, "managePartners") /\ ManageEmail(ok)
  \/ \E h \in Reqs : Respond(h)

InitRouter == LedgerAtRest /\ OthersAtRest

\* requests to the admin router
SpecRouter == InitRouter /\ [][NextRouter]_vars

\* ---- getAllPayouts (part_000 lines 847-911) -------------------------------------
\* the characters of the argument texts: a sign, digits, and a character that
\* is neither
Chars == {"-", "0", "2", "a"}

\* the texts of at most n characters
Texts(n) == UNION {[1..k -> Chars] : k \in 0..n}

\* the arguments when the caller passes none: page = 1, limit = 20
DefaultPage == <<"1">>
DefaultLimit == <<"2", "0">>

IsDigit(c) == c \in {"0", "1", "2", "3", "4", "5", "6", "7", "8", "9"}

DigitValue(c) ==
  CASE c = "0" -> 0 [] c = "1" -> 1 [] c = "2" -> 2 [] c = "3" -> 3
    [] c = "4" -> 4 [] c = "5" -> 5 [] c = "6" -> 6 [] c = "7" -> 7
    [] c = "8" -> 8 [] c = "9" -> 9

\* the length of the longest prefix of digits
RECURSIVE DigitsPrefix(_)
DigitsPrefix(t) ==
  IF t = <<>> \/ ~IsDigit(Head(t)) THEN 0 ELSE 1 + DigitsPrefix(Tail(t))

\* the number written by the first n characters, all digits
RECURSIVE Decimal(_, _)
Decimal(t, n) ==
  IF n = 0 THEN 0 ELSE 10 * Decimal(t, n - 1) + DigitValue(t[n])

\* parseInt: an optional sign, then the longest run of digits; NaN if there is
\* no digit; what follows the digits is ignored
ParseInt(t) ==
  LET negative == t # <<>> /\ Head(t) = "-"
      body == IF negative THEN Tail(t) ELSE t
      n == DigitsPrefix(body)
  IN IF n = 0 THEN [nan |-> TRUE, n |-> 0]
     ELSE [nan |-> FALSE,
           n |-> IF negative THEN 0 - Decimal(body, n) ELSE Decimal(body, n)]

\* x || d on numbers: NaN and 0 are falsy
OrNumber(x, d) == IF x.nan \/ x.n = 0 THEN d ELSE x.n

Max(a, b) == IF a >= b THEN a ELSE b
Min(a, b) == IF a <= b THEN a ELSE b

\* Math.ceil(a / b) for a >= 0, b > 0
Ceil(a, b) == (a + b - 1) \div b

\* line 851
ValidatedPage(page) == Max(1, OrNumber(ParseInt(page), 1))

\* a limit without its upper bound
ValidatedLimit_NoCap(limit) == Max(1, OrNumber(ParseInt(limit), 20))

\* line 852
ValidatedLimit(limit) == Min(100, Max(1, OrNumber(ParseInt(limit), 20)))

\* line 853
Offset(validatedPage, validatedLimit) == (validatedPage - 1) * validatedLimit

\* lines 896-907
Pagination(validatedPage, validatedLimit, count) ==
  LET totalRecords == count
      totalPages == Ceil(totalRecords, validatedLimit)
  IN [total |-> totalRecords, page |-> validatedPage, limit |-> validatedLimit,
      totalPages |-> totalPages,
      hasNextPage |-> validatedPage < totalPages,
      hasPreviousPage |-> validatedPage > 1]

\* lines 847-911: the query with `.range(offset, offset + validatedLimit - 1)`,
\* then the result, or the throw when the store reports an error
GetAllPayouts(storeOk) ==
  /\ pq.pc = "idle"
  /\ LET validatedPage == ValidatedPage(pq.page)
         validatedLimit == ValidatedLimit(pq.limit)
         offset == Offset(validatedPage, validatedLimit)
     IN pq' = [pq EXCEPT
           !.pc = IF storeOk THEN "done" ELSE "failed",
           !.range = <<offset, offset + validatedLimit - 1>>,
           !.pagination = IF storeOk
                          THEN Pagination(validatedPage, validatedLimit, pq.count)
                          ELSE NoPagination]
  /\ UNCHANGED <<payouts, partners, initial_balance, emails, req, http,
                 manageVars, outbox, refundVars, pipeline>>

\* a call of getAllPayouts with any page and limit text, on a store in which
\* the query matches any number of rows
InitPayoutsPage ==
  /\ LedgerAtRest
  /\ mcall = IdleManage /\ history = NoHistory /\ outbox = <<>>
  /\ refunds = [f \in RefundIds |->
        [NoRefund EXCEPT !.status = "pending", !.amount = 1, !.user_id = "U1",
                         !.users = TRUE]]
  /\ wallets = [u \in UserIds |-> 0]
  /\ rcall = IdleRefund /\ rcalls = 0
  /\ pipeline = [h \in Reqs |-> NoRequest]
  /\ \E page \in Texts(MaxLen - 1) \cup {DefaultPage},
        limit \in Texts(MaxLen) \cup {DefaultLimit},
        count \in 0..MaxCount :
        pq = [NoQuery EXCEPT !.page = page, !.limit = limit, !.count = count]

NextPayoutsPage == \E ok \in BOOLEAN : GetAllPayouts(ok)

SpecPayoutsPage == InitPayoutsPage /\ [][NextPayoutsPage]_vars

\* ---- vocabulary of the properties ---------------------------------------------
\* invocation r takes a step
Moves(r) == req'[r].pc # req[r].pc

\* the store is left as it was by the step
StoreUnchanged == payouts' = payouts /\ partners' = partners /\ emails' = emails

\* no store call issued by q so far has failed
AllStoreOk(q) == \A i \in 1..Len(q.log) : q.log[i][2]

\* q has issued a write (a call other than its fetch)
HasWritten(q) == \E i \in 1..Len(q.log) : q.log[i][1] # "fetch"

Returned(q) == q.pc = "done"
Succeeded(q) == q.pc = "done" /\ q.result.ok
FailedWith(q, msg) == q.pc = "done" /\ ~q.result.ok /\ q.result.error = msg

InvalidStateMessages ==
  {"Cannot approve payout with status", "Cannot reject payout with status"}

\* ---- C1 -------------------------------------------------------------------------
\* C1: the stored status of a payout only ever changes from pending to approved
\* or from pending to rejected.  Stated for the steps taken while no store call
\* has failed (so that no compensating write is involved): even there the claim
\* does not hold, since the status writes are not conditional.
C1_OnlyLegalTransitions ==
  [][(\A r \in Reqs : AllStoreOk(req'[r])) =>
       \A p \in PayoutIds :
          payouts'[p].status # payouts[p].status =>
             /\ payouts[p].status = "pending"
             /\ payouts'[p].status \in {"approved", "rejected"}]_vars

\* ---- C2 -------------------------------------------------------------------------
\* C2: when approvePayout or rejectPayout loads a payout whose stored status is
\* not pending, it returns at once with the "Cannot approve/reject payout with
\* status: <status>" error naming that status, has issued no write, and the
\* payouts, the partners and the sent emails are unchanged.
C2_NonPendingIsInvalidState ==
  [][\A r \in Reqs :
       (/\ req[r].pc = "idle" /\ Moves(r)
        /\ req'[r].log[1][2]
        /\ req'[r].payoutId \in PayoutIds
        /\ payouts[req'[r].payoutId].status # "pending")
       => /\ Returned(req'[r])
          /\ ~req'[r].result.ok
          /\ req'[r].result.error =
               (IF req'[r].op = "approve" THEN "Cannot approve payout with status"
                                           ELSE "Cannot reject payout with status")
          /\ req'[r].result.detail = <<payouts[req'[r].payoutId].status>>
          /\ ~HasWritten(req'[r])
          /\ StoreUnchanged]_vars

\* an approval has been refused on a payout that another invocation rejected
C2_Witness ==
  \E r \in Reqs : /\ FailedWith(req[r], "Cannot approve payout with status")
                   /\ req[r].result.detail = <<"rejected">>
                   /\ payouts[req[r].payoutId].status = "rejected"

\* ---- C3 -------------------------------------------------------------------------
\* C3: when approvePayout loads a pending payout whose partner's stored
\* available_balance is below the payout's amount, it returns at once with the
\* "Insufficient partner balance" error carrying both values, has issued no
\* write, and the payout (still pending) and every partner are unchanged.
C3_InsufficientFunds ==
  [][\A r \in Reqs :
       (/\ req[r].pc = "idle" /\ Moves(r)
        /\ req'[r].op = "approve"
        /\ req'[r].log[1][2]
        /\ req'[r].payoutId \in PayoutIds
        /\ payouts[req'[r].payoutId].status = "pending"
        /\ partners[payouts[req'[r].payoutId].partner_id].available_balance
             < payouts[req'[r].payoutId].amount)
       => /\ FailedWith(req'[r], "Insufficient partner balance")
          /\ req'[r].result.detail =
               << partners[payouts[req'[r].payoutId].partner_id].available_balance,
                  payouts[req'[r].payoutId].amount >>
          /\ ~HasWritten(req'[r])
          /\ StoreUnchanged
          /\ payouts'[req'[r].payoutId].status = "pending"]_vars

\* an approval was refused for lack of funds, short by exactly one cent
C3_Witness ==
  \E r \in Reqs :
     /\ FailedWith(req[r], "Insufficient partner balance")
     /\ req[r].result.detail[1] + 1 = req[r].result.detail[2]
     /\ payouts[req[r].payoutId].status = "pending"

\* ---- C4 -------------------------------------------------------------------------
\* the partner of the payout invocation q works on
PartnerOf(q) == payouts[q.payoutId].partner_id

\* C4 (invocations served one after the other): an approvePayout that loads a
\* pending payout with sufficient balance goes on to its writes; the balance it
\* read is the stored one; its balance write lowers the stored balance by exactly
\* the amount, on a payout already stored as approved; and it returns
\* previous_balance = the balance read, new_balance = the balance now stored,
\* with new_balance + amount = previous_balance and the payout approved.
C4_ApproveDeductsExactly ==
  [][\A r \in Reqs : (Moves(r) /\ req'[r].op = "approve") =>
       /\ (/\ req[r].pc = "idle" /\ req'[r].log[1][2]
           /\ req'[r].payoutId \in PayoutIds
           /\ payouts[req'[r].payoutId].status = "pending"
           /\ partners[PartnerOf(req'[r])].available_balance
                >= payouts[req'[r].payoutId].amount)
          => /\ req'[r].pc = "a_updPayout"
             /\ req'[r].currentAvailableBalance =
                   partners[PartnerOf(req'[r])].available_balance
             /\ req'[r].payoutAmount = payouts[req'[r].payoutId].amount
       /\ (req[r].pc = "a_updPayout" /\ AllStoreOk(req'[r]))
          => /\ req'[r].pc = "a_updPartner"
             /\ payouts'[req[r].payoutId].status = "approved"
       /\ (req[r].pc = "a_updPartner" /\ AllStoreOk(req'[r]))
          => /\ req'[r].pc = "a_notify"
             /\ payouts[req[r].payoutId].status = "approved"
             /\ partners[PartnerOf(req[r])].available_balance =
                   req[r].currentAvailableBalance
             /\ partners'[PartnerOf(req[r])].available_balance =
                   partners[PartnerOf(req[r])].available_balance
                     - payouts[req[r].payoutId].amount
       /\ (req[r].pc = "a_notify")
          => /\ Succeeded(req'[r])
             /\ payouts'[req[r].payoutId].status = "approved"
             /\ req'[r].result.payout_id = req[r].payoutId
             /\ req'[r].result.amount = payouts[req[r].payoutId].amount
             /\ req'[r].result.previous_balance = req[r].currentAvailableBalance
             /\ req'[r].result.new_balance =
                   partners'[PartnerOf(req[r])].available_balance
             /\ req'[r].result.new_balance + req'[r].result.amount =
                   req'[r].result.previous_balance]_vars

\* an approval of amount 2 against a balance of 3 has returned 3 and 1
C4_Witness ==
  \E r \in Reqs :
     /\ Succeeded(req[r]) /\ req[r].op = "approve"
     /\ req[r].result.amount = 2
     /\ req[r].result.previous_balance = 3
     /\ req[r].result.new_balance = 1
     /\ partners[PartnerOf(req[r])].available_balance = 1
     /\ payouts[req[r].payoutId].status = "approved"

\* ---- C5 -------------------------------------------------------------------------
\* the last store call q has issued
LastCall(q) == q.log[Len(q.log)]

C6_ExactlyOneApprovalSucceeds ==
  \A r1, r2 \in Reqs :
     (/\ r1 # r2
      /\ req[r1].op = "approve" /\ req[r2].op = "approve"
      /\ req[r1].payoutId \in PayoutIds /\ req[r2].payoutId = req[r1].payoutId
      /\ Returned(req[r1]) /\ Returned(req[r2])
      /\ AllStoreOk(req[r1]) /\ AllStoreOk(req[r2])
      /\ \A r \in Reqs \ {r1, r2} : req[r].pc = "idle"
      /\ initial_balance[PartnerOf(req[r1])] >= payouts[req[r1].payoutId].amount)
     => /\ Succeeded(req[r1]) # Succeeded(req[r2])
        /\ \/ FailedWith(req[r1], "Cannot approve payout with status")
           \/ FailedWith(req[r2], "Cannot approve payout with status")
        /\ partners[PartnerOf(req[r1])].available_balance =
              initial_balance[PartnerOf(req[r1])] - payouts[req[r1].payoutId].amount

\* ---- C7 -------------------------------------------------------------------------
\* C7: the write that moves a payout to approved or to rejected takes effect
\* only if the stored status is still pending; issued on a payout that is no
\* longer pending it changes nothing and the invocation ends with an error.
C7_StatusWriteIsConditional ==
  [][\A r \in Reqs :
       (/\ req[r].pc \in {"a_updPayout", "r_update"} /\ Moves(r)
        /\ payouts[req[r].payoutId].status # "pending")
       => /\ payouts' = payouts
          /\ Returned(req'[r]) /\ ~req'[r].result.ok]_vars

\* ---- C8 -------------------------------------------------------------------------
\* C8: in every reachable state every partner's stored available_balance is
\* at least zero.
C8_BalanceNeverNegative ==
  \A n \in PartnerIds : partners[n].available_balance >= 0

\* two approvals for one partner have both succeeded although the opening
\* balance does not cover the two amounts together
C8_Witness ==
  \E r1, r2 \in Reqs :
     /\ r1 # r2
     /\ Succeeded(req[r1]) /\ req[r1].op = "approve"
     /\ Succeeded(req[r2]) /\ req[r2].op = "approve"
     /\ req[r1].payoutId # req[r2].payoutId
     /\ PartnerOf(req[r1]) = PartnerOf(req[r2])
     /\ req[r1].payoutAmount + req[r2].payoutAmount
           > initial_balance[PartnerOf(req[r1])]

\* ---- C9 -------------------------------------------------------------------------
\* C9: the value a successful balance write stores is the balance stored
\* immediately before that write minus the payout amount; and once two approvals
\* of different payouts of one partner, covered together by the opening balance,
\* have both succeeded (nothing else running), the balance is the opening
\* balance minus both amounts.
C9_NoStaleDeduction ==
  /\ [][\A r \in Reqs :
          (req[r].pc = "a_updPartner" /\ req'[r].pc = "a_notify") =>
             partners'[PartnerOf(req[r])].available_balance =
                partners[PartnerOf(req[r])].available_balance - req[r].payoutAmount]_vars
  /\ [](\A r1, r2 \in Reqs :
          (/\ r1 # r2
           /\ Succeeded(req[r1]) /\ req[r1].op = "approve"
           /\ Succeeded(req[r2]) /\ req[r2].op = "approve"
           /\ req[r1].payoutId # req[r2].payoutId
           /\ PartnerOf(req[r1]) = PartnerOf(req[r2])
           /\ \A r \in Reqs \ {r1, r2} : req[r].pc = "idle")
          => partners[PartnerOf(req[r1])].available_balance =
                initial_balance[PartnerOf(req[r1])]
                  - req[r1].payoutAmount - req[r2].payoutAmount)

\* ---- C10 ------------------------------------------------------------------------
RECURSIVE SumAmounts(_)
SumAmounts(ps) ==
  IF ps = {} THEN 0
  ELSE LET p == CHOOSE x \in ps : TRUE
       IN payouts[p].amount + SumAmounts(ps \ {p})

\* the payouts of partner n that are stored as approved
ApprovedPayoutsOf(n) ==
  {p \in PayoutIds : payouts[p].partner_id = n /\ payouts[p].status = "approved"}

Quiescent == \A r \in Reqs : req[r].pc \in {"idle", "done"}

\* C10: whenever no approve/reject is in progress, each partner's balance is its
\* opening balance minus the amounts of its approved payouts.  Stated for the
\* executions in which no store call has failed.
C10_DeductedExactlyOnce ==
  (Quiescent /\ \A r \in Reqs : AllStoreOk(req[r])) =>
     \A n \in PartnerIds :
        partners[n].available_balance =
           initial_balance[n] - SumAmounts(ApprovedPayoutsOf(n))

\* ---- C11 ------------------------------------------------------------------------
\* C11: when the approval notification fails, approvePayout still returns its
\* success result (payout id, amount, previous and new balance as computed), no
\* error reaches the caller, and the step changes neither the payout (no
\* rollback) nor any partner balance.
C11_NotifierFailureIsSwallowed ==
  [][\A r \in Reqs :
       (req[r].pc = "a_notify" /\ Moves(r) /\ req'[r].notified # "sent")
       => /\ Succeeded(req'[r])
          /\ req'[r].result.message = "Payout approved successfully"
          /\ req'[r].result.payout_id = req[r].payoutId
          /\ req'[r].result.amount = req[r].payoutAmount
          /\ req'[r].result.previous_balance = req[r].currentAvailableBalance
          /\ req'[r].result.new_balance = req[r].newAvailableBalance
          /\ payouts' = payouts
          /\ partners' = partners]_vars

\* an approval has returned success although its notification failed; the
\* payout is approved and the balance is the returned new balance
C11_Witness ==
  \E r \in Reqs :
     /\ Succeeded(req[r]) /\ req[r].op = "approve"
     /\ req[r].notified = "error caught"
     /\ payouts[req[r].payoutId].status = "approved"
     /\ partners[PartnerOf(req[r])].available_balance = req[r].result.new_balance
     /\ req[r].result.new_balance < req[r].result.previous_balance

\* ---- C12 ------------------------------------------------------------------------
\* the calls of the notifier's send operation made for payout p with a template
EmailsFor(p, template) ==
  {i \in 1..Len(emails) : emails[i].payout_id = p /\ emails[i].template = template}

\* C12: every approvePayout that has returned success has invoked the notifier's
\* send operation once, for its payout and with the new balance it returns; an
\* approvePayout that has failed has invoked it not at all.
C12_ApprovalEmailSentOnce ==
  \A r \in Reqs : (Returned(req[r]) /\ req[r].op = "approve") =>
     IF req[r].result.ok
     THEN \E i \in EmailsFor(req[r].payoutId, "payout-approval") :
             emails[i].new_balance = req[r].result.new_balance
     ELSE (\A o \in Reqs \ {r} : req[o].op # "approve")
             => EmailsFor(req[r].payoutId, "payout-approval") = {}

\* ---- C13 ------------------------------------------------------------------------
\* C13: approvePayout and rejectPayout called with an id that has no payout
\* row, or whose row has no partner, return at once with "Payout not found",
\* having issued no write; payouts, partners and emails are unchanged.
C13_MissingPayoutIsNotFound ==
  [][\A r \in Reqs :
       (/\ req[r].pc = "idle" /\ Moves(r)
        /\ req'[r].payoutId \in {MissingPayoutId, OrphanPayoutId})
       => /\ FailedWith(req'[r], "Payout not found")
          /\ ~HasWritten(req'[r])
          /\ StoreUnchanged]_vars

\* an approval of a payout without partner and a rejection of an unknown id
\* have both ended with "Payout not found"
C13_Witness ==
  /\ \E r \in Reqs : /\ FailedWith(req[r], "Payout not found")
                     /\ req[r].op = "approve" /\ req[r].payoutId = OrphanPayoutId
  /\ \E r \in Reqs : /\ FailedWith(req[r], "Payout not found")
                     /\ req[r].op = "reject" /\ req[r].payoutId = MissingPayoutId

\* ---- C14 ------------------------------------------------------------------------
\* C14: a rejectPayout that loads a pending payout goes on to its write, and
\* that write, when the store accepts it, stores status rejected, rejected_by =
\* the given admin id and rejection_reason = the given reason, or "Rejected by
\* admin" when the given reason is empty.
C14_RejectStoresReason ==
  [][\A r \in Reqs : (Moves(r) /\ req'[r].op = "reject") =>
       /\ (/\ req[r].pc = "idle" /\ req'[r].log[1][2]
           /\ req'[r].payoutId \in PayoutIds
           /\ payouts[req'[r].payoutId].status = "pending")
          => req'[r].pc = "r_update"
       /\ (req[r].pc = "r_update" /\ LastCall(req'[r])[2])
          => /\ payouts'[req[r].payoutId].status = "rejected"
             /\ payouts'[req[r].payoutId].rejected_at # NULL
             /\ payouts'[req[r].payoutId].rejected_by = req[r].adminId
             /\ payouts'[req[r].payoutId].rejection_reason =
                  (IF req[r].rejectionReason = "" THEN "Rejected by admin"
                                                  ELSE req[r].rejectionReason)
             /\ payouts'[req[r].payoutId].rejection_reason # ""]_vars

\* one rejection stored the default reason, another the reason it was given
C14_Witness ==
  /\ \E r \in Reqs : /\ Succeeded(req[r]) /\ req[r].op = "reject"
                     /\ req[r].rejectionReason = ""
                     /\ payouts[req[r].payoutId].rejection_reason = "Rejected by admin"
  /\ \E r \in Reqs : /\ Succeeded(req[r]) /\ req[r].op = "reject"
                     /\ req[r].rejectionReason = "duplicate request"
                     /\ payouts[req[r].payoutId].rejection_reason = "duplicate request"
                     /\ payouts[req[r].payoutId].rejected_by = req[r].adminId

\* ---- C15 ------------------------------------------------------------------------
\* C15: when the rejection notification fails, rejectPayout still returns its
\* success result for the payout, and the step leaves the payout row (rejected
\* by this call's write) and every partner as they are.
C15_RejectNotifierFailureIsSwallowed ==
  [][\A r \in Reqs :
       (req[r].pc = "r_notify" /\ Moves(r) /\ req'[r].notified # "sent")
       => /\ Succeeded(req'[r])
          /\ req'[r].result.message = "Payout rejected successfully"
          /\ req'[r].result.payout_id = req[r].payoutId
          /\ payouts' = payouts
          /\ partners' = partners]_vars

\* a rejection has returned success although its notification failed, and the
\* payout is stored as rejected
C15_Witness ==
  \E r \in Reqs :
     /\ Succeeded(req[r]) /\ req[r].op = "reject"
     /\ req[r].notified = "error caught"
     /\ payouts[req[r].payoutId].status = "rejected"

\* ---- C16 ------------------------------------------------------------------------
\* C16: an approvePayout that has returned reports success exactly when its
\* fetch, its payout status write and its partner balance write all succeeded
\* (and it issued no other store call); whenever one of them failed it has
\* returned an error with a message.
C16_SuccessOnlyIfBothWritesSucceeded ==
  \A r \in Reqs : (Returned(req[r]) /\ req[r].op = "approve") =>
     /\ req[r].result.ok <=>
          req[r].log = << <<"fetch", TRUE>>, <<"payouts", TRUE>>, <<"partners", TRUE>> >>
     /\ ~AllStoreOk(req[r]) =>
          /\ ~req[r].result.ok
          /\ req[r].result.error \in
               {"Payout not found", "Failed to approve payout",
                "Failed to update partner balance"}

\* approvals have ended in error after a failed status write and after a failed
\* balance write
C16_Witness ==
  /\ \E r \in Reqs : /\ FailedWith(req[r], "Failed to approve payout")
                     /\ LastCall(req[r]) = <<"payouts", FALSE>>
  /\ \E r \in Reqs : /\ FailedWith(req[r], "Failed to update partner balance")
                     /\ req[r].log[3] = <<"partners", FALSE>>

\* ---- C17 ------------------------------------------------------------------------
\* C17: a request to the approve route for a pending payout covered by its
\* partner's balance is answered with status 200 and success = true, and the
\* payout is then stored as approved.
C17_ApproveRouteApplies ==
  \A h \in Reqs :
     (/\ http[h].state = "responded"
      /\ http[h].payoutId \in PayoutIds
      /\ initial_balance[payouts[http[h].payoutId].partner_id]
           >= payouts[http[h].payoutId].amount)
     => /\ http[h].status = 200
        /\ http[h].success
        /\ payouts[http[h].payoutId].status = "approved"

\* ---- C18 ------------------------------------------------------------------------
\* the payout row and the partner balance as they were when invocation r
\* (about to take a step) was called: the stored ones if r is only now called,
\* else the ones r read in its fetch (invocations served one after the other)
RowBeforeCall(r, p) ==
  IF req[r].pc = "idle" THEN payouts[p] ELSE req[r].payout

BalanceBeforeCall(r, p) ==
  IF req[r].pc = "idle" THEN partners[payouts[p].partner_id].available_balance
  ELSE req[r].currentAvailableBalance

\* r returns an error from approvePayout(p) in this step
ApproveFailsOn(r, p) ==
  /\ Moves(r) /\ Returned(req'[r]) /\ ~req'[r].result.ok
  /\ req'[r].op = "approve" /\ req'[r].payoutId = p

\* C18 as stated: whenever approvePayout returns an error, the payout row and
\* the partner's balance are as they were before the call.
C18_ErrorLeavesLedgerAsBefore ==
  [][\A r \in Reqs, p \in PayoutIds : ApproveFailsOn(r, p) =>
       /\ payouts'[p] = RowBeforeCall(r, p)
       /\ partners'[payouts[p].partner_id].available_balance
            = BalanceBeforeCall(r, p)]_vars

\* C18 amended: whenever approvePayout returns an error the partner's balance
\* is as before the call, and so is the payout row, unless the compensating
\* write has failed: then the row is left as the status write made it, approved.
C18_ErrorLeavesLedgerUnlessCompensationFails ==
  [][\A r \in Reqs, p \in PayoutIds : ApproveFailsOn(r, p) =>
       /\ partners'[payouts[p].partner_id].available_balance
            = BalanceBeforeCall(r, p)
       /\ partners' = partners
       /\ IF LastCall(req'[r]) = <<"rollback", FALSE>>
          THEN /\ payouts'[p].status = "approved"
               /\ RowBeforeCall(r, p).status = "pending"
               /\ payouts'[p].approved_by = req[r].adminId
          ELSE payouts'[p] = RowBeforeCall(r, p)]_vars

\* approvals have returned an error after a compensating write that worked
\* (payout pending again) and after a status write that failed
C18_Witness ==
  /\ \E r \in Reqs : /\ FailedWith(req[r], "Failed to update partner balance")
                     /\ LastCall(req[r]) = <<"rollback", TRUE>>
                     /\ payouts[req[r].payoutId] = req[r].payout
                     /\ payouts[req[r].payoutId].status = "pending"
  /\ \E r \in Reqs : /\ FailedWith(req[r], "Failed to approve payout")
                     /\ payouts[req[r].payoutId].status = "pending"

\* ---- C19 ------------------------------------------------------------------------
\* C19: in the store calls of every approvePayout, the payout status write
\* directly follows a successful fetch, the partner balance write directly
\* follows a successful status write, and the compensating write directly
\* follows a failed balance write; and every step that changes a partner's
\* balance is taken by an invocation whose last store call was a successful
\* status write.
C19_PhaseOrder ==
  /\ [](\A r \in Reqs : req[r].op = "approve" =>
          \A i \in 1..Len(req[r].log) :
             /\ req[r].log[i][1] = "fetch" => i = 1
             /\ req[r].log[i][1] = "payouts" =>
                   i = 2 /\ req[r].log[1] = <<"fetch", TRUE>>
             /\ req[r].log[i][1] = "partners" =>
                   i = 3 /\ req[r].log[2] = <<"payouts", TRUE>>
             /\ req[r].log[i][1] = "rollback" =>
                   i = 4 /\ req[r].log[3] = <<"partners", FALSE>>)
  /\ [][partners' # partners =>
          \E r \in Reqs : /\ Moves(r)
                          /\ req[r].op = "approve"
                          /\ LastCall(req[r]) = <<"payouts", TRUE>>]_vars

\* the balance has been lowered by an approval, and another approval has gone
\* through status write, failed balance write and failed compensating write
C19_Witness ==
  /\ \E n \in PartnerIds : partners[n].available_balance < initial_balance[n]
  /\ \E r \in Reqs :
        req[r].log = << <<"fetch", TRUE>>, <<"payouts", TRUE>>,
                        <<"partners", FALSE>>, <<"rollback", FALSE>> >>

\* ---- C20 ------------------------------------------------------------------------
\* r was cut short after its status write and before its balance write or its
\* compensating write took place
CrashedAfterPhase1(r) ==
  /\ req[r].pc = "crashed" /\ req[r].op = "approve"
  /\ req[r].log \in { << <<"fetch", TRUE>>, <<"payouts", TRUE>> >>,
                      << <<"fetch", TRUE>>, <<"payouts", TRUE>>, <<"partners", FALSE>> >> }

\* the payouts whose amount some invocation's balance write has deducted
DeductedPayouts ==
  {p \in PayoutIds : \E r \in Reqs :
      /\ req[r].op = "approve" /\ req[r].payoutId = p
      /\ Len(req[r].log) >= 3 /\ req[r].log[3] = <<"partners", TRUE>>}

\* C20 (invocations served one after the other, any of which may be cut short):
\* once an approvePayout has been cut short between its status write and its
\* balance or compensating write, its payout is stored as approved while no
\* amount has been deducted for it, the payout row never changes again, and
\* every later approvePayout or rejectPayout that loads it returns the "Cannot
\* approve/reject payout with status: approved" error and changes nothing.
C20_CrashLeavesApprovedUndeducted ==
  /\ [](\A r \in Reqs : CrashedAfterPhase1(r) =>
          /\ payouts[req[r].payoutId].status = "approved"
          /\ req[r].payoutId \notin DeductedPayouts
          /\ partners[PartnerOf(req[r])].available_balance =
                initial_balance[PartnerOf(req[r])] - SumAmounts(DeductedPayouts))
  /\ [][\A r \in Reqs : CrashedAfterPhase1(r) =>
          /\ payouts'[req[r].payoutId] = payouts[req[r].payoutId]
          /\ \A o \in Reqs :
               (/\ req[o].pc = "idle" /\ Moves(o)
                /\ req'[o].payoutId = req[r].payoutId /\ req'[o].log[1][2])
               => /\ Returned(req'[o]) /\ ~req'[o].result.ok
                  /\ req'[o].result.error \in InvalidStateMessages
                  /\ req'[o].result.detail = <<"approved">>
                  /\ StoreUnchanged]_vars

\* an approval was cut short after its status write; the payout is approved,
\* the balance is the opening one, and a later rejection has been refused
C20_Witness ==
  \E r, o \in Reqs :
     /\ CrashedAfterPhase1(r)
     /\ payouts[req[r].payoutId].status = "approved"
     /\ partners[PartnerOf(req[r])].available_balance
           = initial_balance[PartnerOf(req[r])]
     /\ req[o].payoutId = req[r].payoutId
     /\ FailedWith(req[o], "Cannot reject payout with status")

\* ---- C21 ------------------------------------------------------------------------
\* the number of calls of the given kind that q has issued
Calls(q, kind) == Cardinality({i \in 1..Len(q.log) : q.log[i][1] = kind})

\* C21 (every store and notifier call returns): from some point on every
\* invocation that has started has returned a result or an error (a started
\* invocation never becomes idle again, and a returned one stays returned); at
\* any time an approvePayout has
\* issued at most one fetch, one status write, one balance write and one
\* compensating write, and a rejectPayout at most one fetch and one payout
\* write and no other store call.
C21_TerminatesWithBoundedCalls ==
  /\ [](\A r \in Reqs :
          /\ \A kind \in {"fetch", "payouts", "partners", "rollback"} :
                Calls(req[r], kind) <= 1
          /\ req[r].op = "reject" =>
                Calls(req[r], "partners") + Calls(req[r], "rollback") = 0)
  /\ <>[](\A r \in Reqs : req[r].pc # "idle" => Returned(req[r]))

\* an approval has issued all four kinds of store call and has returned
C21_Witness ==
  \E r \in Reqs : /\ Returned(req[r]) /\ req[r].op = "approve"
                  /\ Len(req[r].log) = 4
                  /\ \E o \in Reqs : Returned(req[o]) /\ req[o].op = "reject"
                                       /\ Len(req[o].log) = 2

\* ---- C22 ------------------------------------------------------------------------
\* C22 (invocations served one after the other): when rejectPayout returns its
\* success result, the rejection_reason it returns is the value stored in the
\* payout's rejection_reason.  Does not hold for the empty reason: the default
\* is applied to the stored value only.
C22_ReturnedReasonIsStoredReason ==
  [][\A r \in Reqs :
       (req[r].pc = "r_notify" /\ Moves(r)) =>
          /\ Succeeded(req'[r])
          /\ req'[r].result.rejection_reason =
                payouts'[req[r].payoutId].rejection_reason]_vars

\* ---- C23 ------------------------------------------------------------------------
\* C23: no step of a rejectPayout changes a row of the partners table; a step of
\* an approvePayout changes neither the row of a partner other than the
\* payout's own partner nor the row of a payout other than the one named.
C23_Frame ==
  [][\A r \in Reqs : Moves(r) =>
       /\ req'[r].op = "reject" => partners' = partners
       /\ req'[r].op = "approve" =>
            /\ \A n \in PartnerIds :
                  n # req'[r].payout.partner_id => partners'[n] = partners[n]
            /\ \A p \in PayoutIds :
                  p # req'[r].payoutId => payouts'[p] = payouts[p]]_vars

\* an approval has deducted its amount and a rejection has succeeded, and a
\* rejection has failed on its write, while the other partner's balance is the
\* opening one
C23_Witness ==
  /\ \E r \in Reqs : /\ Succeeded(req[r]) /\ req[r].op = "approve"
                     /\ partners[PartnerOf(req[r])].available_balance
                           < initial_balance[PartnerOf(req[r])]
                     /\ \E p \in PayoutIds \ {req[r].payoutId} :
                           payouts[p].status # "approved"
  /\ \E r \in Reqs : req[r].op = "reject" /\ Returned(req[r]) /\ HasWritten(req[r])
  /\ \A n \in PartnerIds \ {PayoutPartner} :
        partners[n].available_balance = initial_balance[n]

\* ---- C24 ------------------------------------------------------------------------
\* C24: in every reachable state the audit fields of a payout agree with its
\* status: approved_at is set exactly when the status is approved, rejected_at
\* and rejection_reason are set exactly when it is rejected (so a pending
\* payout has none of them).  Does not hold: a status write that lands on a row
\* another invocation has already decided leaves that decision's fields behind.
C24_AuditFieldsAgreeWithStatus ==
  \A p \in PayoutIds :
     /\ (payouts[p].approved_at # NULL) <=> (payouts[p].status = "approved")
     /\ (payouts[p].rejected_at # NULL) <=> (payouts[p].status = "rejected")
     /\ (payouts[p].rejection_reason # NULL) <=> (payouts[p].status = "rejected")

\* ---- C25 ------------------------------------------------------------------------
\* the step starts a managePartners invocation
Starts == history'.calls # history.calls

\* the step starts an invocation whose fetch returns the partner's row
StartsOn(actions) ==
  /\ Starts /\ mcall'.action \in actions
  /\ mcall'.log = << <<"fetch", TRUE>> >>

\* the invocation has issued an update
HasUpdated(c) == \E i \in 1..Len(c.log) : c.log[i][1] = "update"

\* C25 (invocations served one after the other): during a managePartners
\* 'activate' a partner row changes only from suspended to approved, with
\* suspended_at cleared; an 'activate' that reads an approved partner returns
\* at once with success and one that reads a pending or rejected partner
\* returns at once with an error, in both cases without issuing an update and
\* with the partners table unchanged.
C25_ActivateOnlyFromSuspended ==
  /\ [][mcall'.action = "activate" =>
          /\ \A n \in PartnerIds : partners'[n] # partners[n] =>
                /\ partners[n].status = "suspended"
                /\ partners'[n].status = "approved"
                /\ partners'[n].suspended_at = NULL
          /\ StartsOn({"activate"}) =>
                LET status == partners[mcall'.partnerId].status
                IN /\ status = "approved" =>
                        /\ mcall'.pc = "done" /\ mcall'.result.ok
                        /\ partners' = partners
                   /\ status \in {"pending", "rejected"} =>
                        /\ mcall'.pc = "done" /\ ~mcall'.result.ok
                        /\ mcall'.result.message =
                             "Cannot activate partner that is not suspended or approved"
                        /\ partners' = partners
                   /\ status = "suspended" => mcall'.pc = "m_update"]_vars
  /\ [](mcall.action = "activate" /\ mcall.partner.status # "suspended"
           => ~HasUpdated(mcall))

\* an 'activate' has turned a suspended partner into an approved one
C25_Witness ==
  /\ mcall.action = "activate" /\ mcall.pc = "done" /\ mcall.result.ok
  /\ mcall.partner.status = "suspended"
  /\ mcall.log = << <<"fetch", TRUE>>, <<"update", TRUE>> >>
  /\ partners[mcall.partnerId].status = "approved"
  /\ partners[mcall.partnerId].suspended_at = NULL

\* ---- C26 ------------------------------------------------------------------------
\* the status an action gives the partner
TargetStatus(action) ==
  CASE action = "approve" -> "approved"
    [] action = "reject" -> "rejected"
    [] action = "suspend" -> "suspended"
    [] OTHER -> NULL

\* C26 (invocations served one after the other): a managePartners 'approve',
\* 'reject' or 'suspend' that reads a partner already in the action's target
\* status returns at once with success, issues no update and no sendEmail and
\* leaves the partners table and the sent emails unchanged; hence over a run
\* of invocations repeating one of these actions on one partner the partner is
\* written at most once and at most one email is sent.
C26_StatusActionsAreIdempotent ==
  /\ [][(/\ StartsOn({"approve", "reject", "suspend"})
         /\ partners[mcall'.partnerId].status = TargetStatus(mcall'.action))
        => /\ mcall'.pc = "done" /\ mcall'.result.ok
           /\ partners' = partners /\ outbox' = outbox]_vars
  /\ [](/\ (/\ mcall.action \in {"approve", "reject", "suspend"}
            /\ mcall.partner.status = TargetStatus(mcall.action))
           => Len(mcall.log) = 1
        /\ history.action \in {"approve", "reject", "suspend"}
           => history.writes <= 1 /\ history.mails <= 1)

\* an 'approve' repeated on a partner that an earlier invocation of the run
\* approved (one write, one email) has returned without a write
C26_Witness ==
  /\ mcall.action = "approve" /\ mcall.pc = "done" /\ mcall.result.ok
  /\ mcall.log = << <<"fetch", TRUE>> >>
  /\ mcall.partner.status = "approved"
  /\ history.writes = 1 /\ history.mails = 1

\* ---- C27 ------------------------------------------------------------------------
\* C27 (invocations served one after the other): over any sequence of
\* processRefundRequest calls the user's wallet is credited with the refund's
\* amount at most once, and never for a refund that is already approved or
\* rejected.  Does not hold: processRefundRequest does not read the status.
\* (The claim's last part, approved only if the credit succeeded, fails as
\* well: the outcome of add_to_wallet is not read either.)
C27_CreditedAtMostOnce ==
  /\ [][\A u \in UserIds : wallets'[u] # wallets[u] =>
          refunds[rcall.refundId].status = "pending"]_vars
  /\ [](\A f \in RefundIds : wallets[refunds[f].user_id] <= refunds[f].amount)

\* ---- C28 ------------------------------------------------------------------------
\* the invocation has changed the refunds table or a wallet
HasChangedState(c) ==
  \E i \in 1..Len(c.log) : c.log[i][1] \in {"add_to_wallet", "update"} /\ c.log[i][2]

\* C28 (invocations served one after the other): a processRefundRequest changes
\* the refunds table or a wallet only if its action is 'approve' or 'reject',
\* and one that returns an error (a failed notification email included) has
\* changed neither.  Does not hold: every action other than 'approve' takes the
\* rejection branch, and the email is sent after the writes.
C28_OnlyApproveAndRejectChangeState ==
  /\ [][(refunds' # refunds \/ wallets' # wallets)
          => rcall.action \in {"approve", "reject"}]_vars
  /\ [](rcall.pc = "done" /\ ~rcall.result.ok => ~HasChangedState(rcall))

\* ---- C29 ------------------------------------------------------------------------
\* the request has been handed to its controller method
ControllerRan(h) ==
  \/ pipeline[h].stage \in {"in controller", "responded"}
  \/ http[h].state # "none"

TablesUnchanged ==
  /\ payouts' = payouts /\ partners' = partners
  /\ refunds' = refunds /\ wallets' = wallets

\* C29: the middleware a request has passed is always a prefix of
\* authenticateToken, authorizeRoles; a controller method has run for a request
\* only if both have passed it on, in that order; a request stopped by a
\* middleware goes no further; and a step changes the payouts, partners,
\* refunds or wallets only while a request that passed both is in its
\* controller.
C29_ControllersRunBehindBothMiddleware ==
  /\ [](\A h \in Reqs :
          /\ pipeline[h].passed \in {<<>>, <<"authenticateToken">>,
                                     <<"authenticateToken", "authorizeRoles">>}
          /\ ControllerRan(h) =>
                pipeline[h].passed = <<"authenticateToken", "authorizeRoles">>)
  /\ [][/\ \A h \in Reqs : pipeline[h].stage = "stopped" =>
                              /\ pipeline'[h] = pipeline[h]
                              /\ http'[h] = http[h]
        /\ ~TablesUnchanged =>
              \E h \in Reqs :
                 /\ pipeline[h].stage = "in controller"
                 /\ pipeline[h].passed = <<"authenticateToken", "authorizeRoles">>]_vars

\* one request was stopped by authorizeRoles and another, passed on by both,
\* has had its refund processed
C29_Witness ==
  \E h, o \in Reqs :
     /\ pipeline[h].stage = "stopped" /\ pipeline[h].passed = <<"authenticateToken">>
     /\ pipeline[o].stage = "responded" /\ pipeline[o].route = "processRefund"
     /\ pipeline[o].passed = <<"authenticateToken", "authorizeRoles">>
     /\ \E f \in RefundIds : refunds[f].status # "pending"

\* ---- C30 ------------------------------------------------------------------------
\* C30: for every page and limit text, the result of getAllPayouts has a page
\* of at least 1 and a limit between 1 and 100, the range asked of the store is
\* [(page-1)*limit, (page-1)*limit + limit - 1], totalPages is the least number
\* of pages of that limit that hold all the rows counted, hasNextPage holds
\* exactly when page < totalPages and hasPreviousPage exactly when page > 1.
C30_PaginationIsWellFormed ==
  pq.pc = "done" =>
     LET g == pq.pagination
     IN /\ g.page >= 1
        /\ g.limit >= 1 /\ g.limit <= 100
        /\ pq.range[1] = (g.page - 1) * g.limit
        /\ pq.range[2] = (g.page - 1) * g.limit + g.limit - 1
        /\ g.total = pq.count
        /\ g.totalPages * g.limit >= g.total
        /\ (g.totalPages - 1) * g.limit < g.total
        /\ g.hasNextPage <=> (g.page < g.totalPages)
        /\ g.hasPreviousPage <=> (g.page > 1)

\* a negative limit was raised to 1, and page 2 of 3 has a page on either side
C30_Witness ==
  /\ pq.pc = "done"
  /\ pq.limit = <<"-", "2">> /\ pq.pagination.limit = 1
  /\ pq.page = <<"2", "a">> /\ pq.pagination.page = 2
  /\ pq.pagination.totalPages = 3
  /\ pq.pagination.hasNextPage /\ pq.pagination.hasPreviousPage

====
